---- MODULE Spec2Model ----
(***************************************************************************)
(* Model of the UaDI template producer library (src/src/UaDI_template.c,   *)
(* src/src/UaDI_template.h) together with the consumers that call it.      *)
(*                                                                         *)
(* The library side is translated from the function bodies of              *)
(* UaDI_template.c.  The consumer side is the bookkeeping a consumer keeps *)
(* by the contract of UaDI_template.h: a call that returns UADI_SUCCESS    *)
(* took effect, and a chunk handed over by a successful call is the        *)
(* library's until a callback hands it back.                               *)
(***************************************************************************)
EXTENDS Integers, Sequences, FiniteSets, TLC

\* ------------------------------------------------------------ status codes
UADI_SUCCESS == 0
UADI_ERROR == -1
UADI_BUFFER_TOO_SMALL == -2
UADI_INVALID_HANDLE == -3
UADI_NO_DATA == -4
UADI_OUT_OF_CHUNKS == -5
UADI_INTERNAL_ERROR == -255

\* ------------------------------------------------------------ the universe
\* Consumers, each holding one preallocated uadi_lib_handle.
Sessions == {"s1", "s2"}

\* Preallocated uadi_device_handle slots of the consumers.
Handles == {"h1", "h2"}

\* Chunks of memory allocated by the consumers.
Chunks == {"c1", "c2"}

NULL == "NULL"
NoKey == "no-key"
NoSession == "no-session"
NoHandle == "no-handle"

\* The device list of uadi_enumerate, one record per JSON object.
devices ==
  << [key |-> "123e4567-e89b-12d3-a456-426655440000",
      vendor |-> "skunkforce e.V.",
      description |-> "generates an iota"],
     [key |-> "e89b4567-123e-12d3-a456-426655440000",
      vendor |-> "skunkforce e.V.",
      description |-> "generates an inverse iota"] >>

\* One element of the "devices" array as uadi_enumerate spells it.
DeviceJson(d) ==
  "{\"key\":\"" \o d.key \o "\",\"vendor\":\"" \o d.vendor
    \o "\",\"description\":\"" \o d.description \o "\"}"

\* The string literal jsonStr of uadi_enumerate.
jsonStr ==
  "{\"devices\":[" \o DeviceJson(devices[1]) \o "," \o DeviceJson(devices[2]) \o "]}"

\* The keys a consumer reads out of the enumerated device list.
EnumeratedKeys == {devices[i].key : i \in DOMAIN devices}

\* A key no device of the list carries.
UnknownKey == "00000000-0000-0000-0000-000000000000"

\* The keys a consumer may pass to uadi_claim_device.
Keys == EnumeratedKeys \cup {UnknownKey}

\* What cJSON_Print can render for the "version" member: the member is added
\* with cJSON_AddNumberToObject from the string literal "0.0.1", so the number
\* printed is not determined by the source.
VersionRenderings == {"0", "null"}

\* The text cJSON_Print produces for the meta-data object (formatted output).
MetaJson(version) ==
  "{\n\t\"name\":\t\"iota-producer\",\n\t\"version\":\t" \o version
    \o ",\n\t\"author\":\t\"...\",\n\t\"description\":\t\"...\"\n}"

\* strlen(jsonStr) + 1: the bytes memcpy writes, terminating zero included.
CopySize(text) == Len(text) + 1

\* Capacities of the buffers the consumers pass: one too small for either
\* text, one large enough for both.
BufferCapacities == {64, 512}

VARIABLES
  proc,           \* "running", or "crashed" after a fault of the process
  connection,     \* per session: struct connection of the library
  lib_handle,     \* per session: the consumer's uadi_lib_handle memory
  device_handle,  \* per slot: the consumer's uadi_device_handle memory
  session,        \* per session: the consumer's view, "none" | "open" | "closed"
  dev,            \* per slot: the consumer's view of its claim
  lent_to,        \* per chunk: the slot it was handed over to, or NoHandle
  receive_calls,  \* invocations of the uadi_receive_callback so far
  recycle_calls,  \* invocations of the uadi_recycle_unused_chunk_callback
  buf,            \* the buffer of the last get_meta_data / enumerate call
  ret             \* the last API call: its arguments, what held when it was
                  \* made, and its return value

vars == << proc, connection, lib_handle, device_handle, session, dev, lent_to,
           receive_calls, recycle_calls, buf, ret >>

library == << connection, receive_calls, recycle_calls >>

\* ------------------------------------------------------------ derived state
\* struct device: the devices a connection holds.
DevicesOf(s) == connection[s].devices

AllDevices == UNION {DevicesOf(s) : s \in Sessions}

\* Chunks the consumer holds.
with_host == {c \in Chunks : lent_to[c] = NoHandle}

\* Chunks waiting in a device to be filled.
lent_empty == UNION {d.recycle_queue : d \in AllDevices}

\* Chunks filled and waiting in a device for delivery.
lent_filled == UNION {d.ready_queue : d \in AllDevices}

\* Chunks passed to a callback that has not returned yet.
in_flight == UNION {d.in_callback : d \in AllDevices}

\* Chunks the consumer handed over to slot h and has not got back.
LentTo(h) == {c \in Chunks : lent_to[c] = h}

\* The consumer's view: slot h holds a claim.
Claimed(h) == dev[h].state = "claimed"

\* The consumer's view: some slot holds a claim on key k.
KeyClaimed(k) == \E h \in Handles : Claimed(h) /\ dev[h].key = k

\* The consumer's view: session s has a claimed device.
SessionActive(s) == \E h \in Handles : Claimed(h) /\ dev[h].owner = s

\* since: how many receive callbacks had been invoked when the claim was made;
\* pushed: the chunks handed over by uadi_push_chunks during the claim.
FreeSlot ==
  [state |-> "unclaimed", key |-> NoKey, owner |-> NoSession, since |-> 0,
   pushed |-> {}]

\* The record of an API call.
Call(op, status) ==
  [op |-> op, status |-> status, returned |-> TRUE,
   session |-> NoSession, handle |-> NoHandle, key |-> NoKey, chunks |-> {},
   key_claimed |-> FALSE, handle_claimed |-> FALSE, session_active |-> FALSE,
   session_closed |-> FALSE, since |-> 0, pushed |-> {}]

\* ------------------------------------------------------------ initial state
Init ==
  /\ proc = "running"
  /\ connection = [s \in Sessions |-> [thread |-> NULL, devices |-> {}]]
  /\ lib_handle = [s \in Sessions |-> NULL]
  /\ device_handle = [h \in Handles |-> NULL]
  /\ session = [s \in Sessions |-> "none"]
  /\ dev = [h \in Handles |-> FreeSlot]
  /\ lent_to = [c \in Chunks |-> NoHandle]
  /\ receive_calls = << >>
  /\ recycle_calls = << >>
  /\ buf = [cap |-> 0, text |-> "", written |-> 0]
  /\ ret = Call("none", UADI_SUCCESS)

\* ------------------------------------------------------------ the API
\* uadi_init: returns 0; no thread is spawned, *lib_handle is not written.
uadi_init(s) ==
  /\ proc = "running"
  /\ session[s] # "open"
  /\ session' = [session EXCEPT ![s] = "open"]
  /\ ret' = [Call("init", 0) EXCEPT !.session = s]
  /\ UNCHANGED << proc, library, lib_handle, device_handle, dev, lent_to, buf >>

\* The body shared by uadi_get_meta_data and uadi_enumerate:
\* memcpy(dst, text, strlen(text) + 1); return 0.  The capacity of the
\* destination is not looked at; a copy larger than the destination is a
\* write outside the buffer, after which the call either returns or the
\* process faults.
CopyOut(op, s, cap, text) ==
  /\ proc = "running"
  /\ session[s] # "none"
  /\ buf' = [cap |-> cap, text |-> text, written |-> CopySize(text)]
  /\ \/ /\ proc' = "running"
        /\ ret' = [Call(op, 0) EXCEPT !.session = s,
                                        !.session_closed = (session[s] = "closed")]
     \/ /\ CopySize(text) > cap
        /\ proc' = "crashed"
        /\ ret' = [Call(op, 0) EXCEPT !.session = s, !.returned = FALSE,
                                        !.session_closed = (session[s] = "closed")]
  /\ UNCHANGED << library, lib_handle, device_handle, session, dev, lent_to >>

uadi_get_meta_data(s, cap) ==
  \E version \in VersionRenderings : CopyOut("get_meta_data", s, cap, MetaJson(version))

\* A faulty variant of uadi_enumerate: it leaves a device that is claimed out
\* of the list.
uadi_enumerate_unclaimed_only(s, cap) ==
  CopyOut("enumerate", s, cap,
          IF KeyClaimed(devices[1].key)
            THEN "{\"devices\":[" \o DeviceJson(devices[2]) \o "]}"
            ELSE jsonStr)

uadi_enumerate(s, cap) == CopyOut("enumerate", s, cap, jsonStr)

\* uadi_claim_device: returns 0 for every key and every state; no device is
\* created, *device_handle is not written, no argument is stored.
uadi_claim_device(s, h, k, cs) ==
  /\ proc = "running"
  /\ session[s] # "none"
  /\ ~Claimed(h)
  /\ cs \subseteq with_host
  /\ ret' = [Call("claim", 0) EXCEPT !.session = s, !.handle = h, !.key = k,
                                      !.chunks = cs,
                                      !.key_claimed = KeyClaimed(k),
                                      !.session_closed = (session[s] = "closed")]
  /\ dev' = [dev EXCEPT ![h] = [state |-> "claimed", key |-> k, owner |-> s,
                                  since |-> Len(receive_calls),
                                  pushed |-> {}]]
  /\ lent_to' = [c \in Chunks |-> IF c \in cs THEN h ELSE lent_to[c]]
  /\ UNCHANGED << proc, library, lib_handle, device_handle, session, buf >>

\* A faulty variant of uadi_push_chunks: chunks pushed to a handle that holds
\* no claim are handed straight back through the recycle callback that a
\* former claim of the handle left behind.
uadi_push_chunks_recycles(h, cs) ==
  /\ proc = "running"
  /\ cs # {}
  /\ cs \subseteq with_host
  /\ ret' = [Call("push", 0) EXCEPT !.handle = h, !.chunks = cs,
                                     !.handle_claimed = Claimed(h)]
  /\ IF Claimed(h) \/ Len(recycle_calls) >= 2
       THEN /\ lent_to' = [c \in Chunks |-> IF c \in cs THEN h ELSE lent_to[c]]
            /\ dev' = IF Claimed(h) THEN [dev EXCEPT ![h].pushed = @ \cup cs] ELSE dev
            /\ UNCHANGED recycle_calls
       ELSE /\ recycle_calls' = Append(recycle_calls, [handle |-> h, chunks |-> cs])
            /\ UNCHANGED << lent_to, dev >>
  /\ UNCHANGED << proc, connection, receive_calls, lib_handle, device_handle,
                  session, buf >>

\* uadi_push_chunks: returns 0; the chunk array is not stored.
uadi_push_chunks(h, cs) ==
  /\ proc = "running"
  /\ cs # {}
  /\ cs \subseteq with_host
  /\ ret' = [Call("push", 0) EXCEPT !.handle = h, !.chunks = cs,
                                     !.handle_claimed = Claimed(h)]
  /\ lent_to' = [c \in Chunks |-> IF c \in cs THEN h ELSE lent_to[c]]
  /\ dev' = IF Claimed(h) THEN [dev EXCEPT ![h].pushed = @ \cup cs] ELSE dev
  /\ UNCHANGED << proc, library, lib_handle, device_handle, session, buf >>

\* uadi_release_device: returns 0; no callback is invoked.
uadi_release_device(h) ==
  /\ proc = "running"
  /\ ret' = [Call("release", 0) EXCEPT !.handle = h, !.key = dev[h].key,
                                        !.handle_claimed = Claimed(h),
                                        !.since = dev[h].since,
                                        !.chunks = LentTo(h),
                                        !.pushed = dev[h].pushed]
  /\ dev' = [dev EXCEPT ![h] = FreeSlot]
  /\ UNCHANGED << proc, library, lib_handle, device_handle, session, lent_to, buf >>

\* uadi_deinit: returns 0.
uadi_deinit(s) ==
  /\ proc = "running"
  /\ session[s] # "none"
  /\ ret' = [Call("deinit", 0) EXCEPT !.session = s,
                                       !.session_active = SessionActive(s),
                                       !.session_closed = (session[s] = "closed")]
  /\ session' = [session EXCEPT ![s] = "closed"]
  /\ UNCHANGED << proc, library, lib_handle, device_handle, dev, lent_to, buf >>

Next ==
  \/ \E s \in Sessions : uadi_init(s)
  \/ \E s \in Sessions, cap \in BufferCapacities : uadi_get_meta_data(s, cap)
  \/ \E s \in Sessions, cap \in BufferCapacities : uadi_enumerate(s, cap)
  \/ \E s \in Sessions, h \in Handles, k \in Keys, cs \in SUBSET Chunks :
       uadi_claim_device(s, h, k, cs)
  \/ \E h \in Handles, cs \in SUBSET Chunks : uadi_push_chunks(h, cs)
  \/ \E h \in Handles : uadi_release_device(h)
  \/ \E s \in Sessions : uadi_deinit(s)

Spec == Init /\ [][Next]_vars

\* The consumers keep calling the API as long as a call is possible.
FairSpec == Spec /\ WF_vars(Next)

\* ------------------------------------------------------------ the claims

\* C1: chunk conservation.  In every reachable state the number of chunks
\* with-host plus lent-empty plus lent-filled plus in-flight-to-host equals the
\* number of chunks the consumers supplied: no chunk is created, destroyed or
\* duplicated.
C1_ChunkConservation ==
  Cardinality(with_host) + Cardinality(lent_empty) + Cardinality(lent_filled)
    + Cardinality(in_flight) = Cardinality(Chunks)

\* C2: when uadi_release_device has returned for a claimed device, it did
\* return (Release terminates), no filled chunk waits in a ready-queue of the
\* library and every chunk the consumer had lent to that device is back with
\* the consumer.
C2_ReleaseReturnsEveryChunk ==
  (ret.op = "release" /\ ret.handle_claimed) =>
     /\ ret.returned
     /\ lent_filled = {}
     /\ LentTo(ret.handle) = {}

\* C3: exclusive claim.  No device key is claimed through two handles at once,
\* and a uadi_claim_device call on a key that was claimed when the call was
\* made returned UADI_INTERNAL_ERROR and claimed nothing.
C3_ExclusiveClaim ==
  /\ \A k \in Keys : Cardinality({h \in Handles : Claimed(h) /\ dev[h].key = k}) <= 1
  /\ (ret.op = "claim" /\ ret.key_claimed) =>
        /\ ret.status = UADI_INTERNAL_ERROR
        /\ ~Claimed(ret.handle)

\* C4: every chunk is in exactly one of the states with-host, lent-empty,
\* lent-filled, in-flight-to-host; none is owned by two parties, none by
\* nobody.
C4_ExactlyOneOwner ==
  \A c \in Chunks :
    Cardinality({i \in 1..4 :
       c \in << with_host, lent_empty, lent_filled, in_flight >>[i]}) = 1

\* C5: uadi_claim_device accepts exactly the keys uadi_enumerate lists: a
\* claim that succeeded named an enumerated key, and a claim with a key not in
\* the list returned UADI_INVALID_HANDLE and claimed no device.
C5_ClaimAcceptsEnumeratedKeys ==
  ret.op = "claim" =>
     /\ (ret.status = UADI_SUCCESS => ret.key \in EnumeratedKeys)
     /\ (ret.key \notin EnumeratedKeys =>
           ret.status = UADI_INVALID_HANDLE /\ ~Claimed(ret.handle))

\* C6: uadi_deinit on a session that had a claimed (or draining) device when
\* the call was made returned UADI_INTERNAL_ERROR and left the session open:
\* the session outlives its devices.
C6_DeinitRefusedWhileActive ==
  (ret.op = "deinit" /\ ret.session_active) =>
     /\ ret.status = UADI_INTERNAL_ERROR
     /\ session[ret.session] = "open"
     /\ \A h \in Handles :
          (Claimed(h) /\ dev[h].owner = ret.session) => session[dev[h].owner] = "open"

\* C7: uadi_get_meta_data and uadi_enumerate with a capacity smaller than the
\* text and its terminating zero returned UADI_BUFFER_TOO_SMALL and wrote
\* nothing past the capacity; with an adequate capacity they returned
\* UADI_SUCCESS.
C7_BufferTooSmall ==
  ret.op \in {"get_meta_data", "enumerate"} =>
     IF buf.cap < CopySize(buf.text)
       THEN /\ ret.returned
            /\ ret.status = UADI_BUFFER_TOO_SMALL
            /\ buf.written <= buf.cap
       ELSE ret.returned /\ ret.status = UADI_SUCCESS

\* C8: uadi_push_chunks on a handle whose device was not claimed when the
\* call was made returned UADI_INVALID_HANDLE, and the pushed chunks are still
\* with the consumer.
C8_PushOnUnclaimedRejected ==
  (ret.op = "push" /\ ~ret.handle_claimed) =>
     /\ ret.status = UADI_INVALID_HANDLE
     /\ ret.chunks \subseteq with_host

\* C9: backpressure.  A claimed device that has no lent-empty chunk available
\* does not stay silent: for as long as it stays claimed, the receive callback
\* is eventually invoked for it with status UADI_OUT_OF_CHUNKS (unless the
\* process has faulted).
C9_OutOfChunksSignalled ==
  \A h \in Handles :
    (Claimed(h) /\ lent_empty = {})
      ~> (\/ \E i \in DOMAIN receive_calls :
               /\ receive_calls[i].handle = h
               /\ receive_calls[i].status = UADI_OUT_OF_CHUNKS
          \/ ~Claimed(h)
          \/ proc = "crashed")

\* The receive callbacks invoked for slot h after the first n of all.
CallsSince(h, n) ==
  {i \in DOMAIN receive_calls : i > n /\ receive_calls[i].handle = h}

\* C10: when uadi_release_device has returned for a claimed device of which
\* no chunk was ever delivered with data, exactly one receive callback was
\* invoked for that claim, carrying an info packet that holds only the
\* terminating zero and no data packet, and the device is unclaimed.
C10_EmptyMarkerOnRelease ==
  (/\ ret.op = "release"
   /\ ret.handle_claimed
   /\ \A i \in CallsSince(ret.handle, ret.since) : receive_calls[i].datapack = NULL) =>
     /\ Cardinality(CallsSince(ret.handle, ret.since)) = 1
     /\ \A i \in CallsSince(ret.handle, ret.since) : receive_calls[i].infopack = ""
     /\ ~Claimed(ret.handle)

\* C11: when uadi_init has returned UADI_SUCCESS, the caller's handle holds a
\* library handle (it is no longer the empty value the caller preallocated),
\* no device of the session is claimed and no callback has been invoked.
C11_InitFillsHandle ==
  (ret.op = "init" /\ ret.status = UADI_SUCCESS) =>
     /\ lib_handle[ret.session] # NULL
     /\ ~SessionActive(ret.session)
     /\ receive_calls = << >>
     /\ recycle_calls = << >>

\* C12: a uadi_get_meta_data, uadi_enumerate, uadi_claim_device or uadi_deinit
\* call made with a library handle on which uadi_deinit had succeeded (and
\* which was not initialised again) did not succeed.
C12_UnusableAfterDeinit ==
  (/\ ret.op \in {"get_meta_data", "enumerate", "claim", "deinit"}
   /\ ret.session_closed) =>
     ~(ret.returned /\ ret.status = UADI_SUCCESS)

\* C13: a device's lifecycle state changes only from unclaimed to claimed (by
\* a uadi_claim_device that succeeds), from claimed to draining (by
\* uadi_release_device) and from draining to unclaimed; and a claim of an
\* enumerated key that no slot holds, the key of a released device included,
\* succeeds.
C13_Lifecycle ==
  [][/\ \A h \in Handles :
          dev'[h].state # dev[h].state =>
             \/ /\ dev[h].state = "unclaimed" /\ dev'[h].state = "claimed"
                /\ ret'.op = "claim" /\ ret'.status = UADI_SUCCESS
             \/ /\ dev[h].state = "claimed" /\ dev'[h].state = "draining"
                /\ ret'.op = "release"
             \/ dev[h].state = "draining" /\ dev'[h].state = "unclaimed"
     /\ (ret'.op = "claim" /\ ret'.key \in EnumeratedKeys /\ ~KeyClaimed(ret'.key)) =>
           (ret'.status = UADI_SUCCESS /\ dev'[ret'.handle].state = "claimed")
    ]_vars

\* C15: when uadi_release_device has returned for a claimed device, every
\* chunk that was lent to the device when Release was called and was never
\* delivered with data has been passed to the recycle callback of that device,
\* and to no receive callback.
C15_UnusedChunksRecycled ==
  (ret.op = "release" /\ ret.handle_claimed) =>
     \A c \in ret.chunks :
        (\A i \in CallsSince(ret.handle, ret.since) : receive_calls[i].datapack # c) =>
           \E j \in DOMAIN recycle_calls :
              /\ recycle_calls[j].handle = ret.handle
              /\ c \in recycle_calls[j].chunks

\* C16: uadi_push_chunks on a claimed device is accepted, and no chunk pushed
\* during a claim is still lent to the device when uadi_release_device has
\* returned: delivery or recycling brought each of them back first.
C16_PushedChunksNotLeaked ==
  /\ (ret.op = "push" /\ ret.handle_claimed) => ret.status = UADI_SUCCESS
  /\ (ret.op = "release" /\ ret.handle_claimed) =>
        ret.pushed \cap LentTo(ret.handle) = {}

\* C17: every chunk that was lent to a device when uadi_release_device was
\* called on it is eventually with the consumer again (unless the process has
\* faulted).
C17_LentChunksEventuallyBack ==
  \A c \in Chunks :
    (ret.op = "release" /\ ret.handle_claimed /\ c \in ret.chunks)
      ~> (c \in with_host \/ proc = "crashed")

\* The callbacks a step invokes for slot h.
NewCalls(h) ==
  {i \in DOMAIN receive_calls' \ DOMAIN receive_calls : receive_calls'[i].handle = h}
    \cup
  {j \in DOMAIN recycle_calls' \ DOMAIN recycle_calls : recycle_calls'[j].handle = h}

\* C19: once uadi_release_device has returned for a claim, no step invokes a
\* receive or recycle callback for that handle while it holds no claim; only
\* a new claim of the handle brings callbacks back.
C19_NoCallbackAfterRelease ==
  [][\A h \in Handles : (~Claimed(h) /\ dev'[h].state # "claimed") => NewCalls(h) = {}]_vars

\* Release has returned for a claimed device that still had chunks lent.
C19_Witness ==
  /\ ret.op = "release" /\ ret.handle_claimed /\ ret.status = UADI_SUCCESS
  /\ ~Claimed(ret.handle)
  /\ ret.chunks # {}

\* C20: a uadi_get_meta_data or uadi_enumerate call changes no device's
\* lifecycle state, no queue, no callback log and no chunk's ownership, and
\* uadi_enumerate writes the full device list whether or not a device is
\* claimed.
C20_ReadOnly ==
  [][ret'.op \in {"get_meta_data", "enumerate"} =>
       /\ UNCHANGED << connection, receive_calls, recycle_calls, session, dev, lent_to >>
       /\ ret'.op = "enumerate" => buf'.text = jsonStr
    ]_vars

\* uadi_enumerate has returned the device list while an enumerated device was
\* claimed and a chunk was lent.
C20_Witness ==
  /\ ret.op = "enumerate" /\ ret.returned /\ ret.status = UADI_SUCCESS
  /\ buf.text = jsonStr
  /\ \E h \in Handles : Claimed(h) /\ dev[h].key \in EnumeratedKeys /\ LentTo(h) # {}

TypeOK ==
  /\ proc \in {"running", "crashed"}
  /\ session \in [Sessions -> {"none", "open", "closed"}]
  /\ lent_to \in [Chunks -> Handles \cup {NoHandle}]
  /\ \A h \in Handles : dev[h].state \in {"unclaimed", "claimed"}
  /\ ret.status \in {UADI_SUCCESS, UADI_ERROR, UADI_BUFFER_TOO_SMALL,
                     UADI_INVALID_HANDLE, UADI_NO_DATA, UADI_OUT_OF_CHUNKS,
                     UADI_INTERNAL_ERROR}
  /\ Len(jsonStr) = 237
====
